---- MODULE Spec2Model ----
(***************************************************************************)
(* State-machine model of the AML assistant's risk-analysis orchestration: *)
(*   src/ai/intelligent_engine.py   IntelligentAIEngine and its providers  *)
(*   src/core/aml_assistant.py      UltimateAMLAssistant (the facade)       *)
(*   src/integration/bank_system.py BankIntegrationManager and the systems *)
(*   src/core/core_config.py        ConfigManager                          *)
(*                                                                         *)
(* Python dicts are records/functions over string keys; a key that the     *)
(* code never sets is absent from the DOMAIN, and dict.get(k, d) is Get.   *)
(* Confidences are integers in units of 1/10000 (0.7 is 7000).             *)
(* Each request is a coroutine; it can be interleaved with the others at   *)
(* its await points, so every action below runs from one await to the next.*)
(***************************************************************************)
EXTENDS Integers, Sequences, FiniteSets, TLC

\* ------------------------------------------------------------------ bounds
\* Number of analyze_transaction requests issued over a run.
NumReq == 3
\* Number of analyze_transaction coroutines that can be in flight at once.
NumTasks == 2
\* Largest learning.pattern_memory_size the configuration is drawn from.
MaxCapacity == 2
\* Largest number of risk factors in a result handed to _calculate_confidence.
MaxFactors == 12

\* ------------------------------------------------------- python data model
\* Python's None.
None == [py_none |-> TRUE]
\* The outcome "the awaited call raised an Exception".
Raised == [py_raised |-> TRUE]

\* dict.get(k, d)
Get(d, k, default) == IF k \in DOMAIN d THEN d[k] ELSE default
\* d[k] = v on a dict
Put(d, k, v) == (k :> v) @@ d

\* str.startswith
StartsWith(s, prefix) ==
    /\ Len(s) >= Len(prefix)
    /\ SubSeq(s, 1, Len(prefix)) = prefix

RECURSIVE Digits(_)
\* Decimal digits of a natural number, most significant first.
Digits(n) == IF n < 10 THEN <<n>> ELSE Append(Digits(n \div 10), n % 10)

RECURSIVE PadLeft(_, _)
PadLeft(ds, width) == IF Len(ds) >= width THEN ds ELSE PadLeft(<<0>> \o ds, width)

\* f"ALERT_{n:06d}": the prefix and the zero-padded decimal digits.
FormatAlertId(n) == <<"ALERT_">> \o PadLeft(Digits(n), 6)

\* ------------------------------------------------------------ input domains
TxIds == {"TX1", "TX2"}
\* The "High-Risk Cash Deposit" scenario of demo_ultimate_assistant.
ScenarioB ==
    [transaction_id |-> "TX1", customer_id |-> "CUST003", amount |-> 15000,
     type |-> "cash_deposit", channel |-> "branch"]
\* The "Potential Structuring" scenario of demo_ultimate_assistant.
ScenarioC ==
    [transaction_id |-> "TX2", customer_id |-> "CUST001", amount |-> 9500,
     type |-> "cash_deposit", channel |-> "branch"]
\* A transaction dict; 'customer_id' may be missing from what the caller passes.
Transactions == {ScenarioB, ScenarioC, [transaction_id |-> "TX1"]}
\* correct_assessment dicts handed to learn_from_feedback.
Assessments == {[risk_level |-> "low"], [risk_level |-> "high"]}
\* ai.api_key / OPENAI_API_KEY; the empty string stands for None and ''.
ApiKeys == {<<>>, <<"p", "k", "-", "1">>, <<"s", "k", "-", "1">>}
ProviderNames == {"openai", "local", "hybrid"}
\* Classes BankSystemFactory.create_system can instantiate.
SystemTypes == {"SimulationSystem", "FlexcubeSystem"}
\* Values risk.high_risk_score can be configured to (70 is the default).  No
\* code reads the setting, so it is no part of the state below.
HighRiskScores == {60, 70}

VARIABLES
    config,               \* the configuration snapshot the engine and facade read
    available_providers,  \* IntelligentAIEngine.available_providers, in insertion order
    learning_memory,      \* IntelligentAIEngine.learning_memory
    performance_metrics,  \* IntelligentAIEngine.performance_metrics
    alert_counter,        \* UltimateAMLAssistant.alert_counter
    alerts,               \* SimulationSystem.alerts
    generated,            \* history: every alert_data dict built by _submit_alert, in order
    inserted,             \* history: request ids in the order their entries were appended
    submitted,            \* history: number of analyze_transaction calls made so far
    req,                  \* the analyze_transaction coroutines, by task
    status,               \* the dict the last get_system_status call returned
    conf_call             \* a call of _calculate_confidence: its argument and return value

vars == <<config, available_providers, learning_memory, performance_metrics,
          alert_counter, alerts, generated, inserted, submitted, req,
          status, conf_call>>

\* A task runs one analyze_transaction call at a time and is reused for the
\* next call once it has returned or raised.
Tasks == 1 .. NumTasks

\* IntelligentAIEngine._check_openai_availability
CheckOpenAIAvailability(cfg) ==
    cfg.api_key # <<>> /\ StartsWith(cfg.api_key, <<"s", "k", "-">>)

\* ------------------------------------------------------------ core_config.py
\* ConfigManager.get_ai_config together with the sections of ConfigManager.config
\* that the engine and the facade read.
\* import_ok says whether `from .providers.openai_provider import OpenAIProvider`
\* succeeds; the import is only attempted when the key check passes.
Configs ==
    {c \in [provider : ProviderNames,
            api_key : ApiKeys,
            import_ok : BOOLEAN,
            pattern_memory_size : 0 .. MaxCapacity,
            core_system : SystemTypes] :
        c.import_ok => CheckOpenAIAvailability(c)}

\* ------------------------------------------------------ intelligent_engine.py
\* An _initialize_providers that registers the hybrid provider unconditionally.
InitializeProvidersHybridAlways(cfg) ==
    LET p1 == IF CheckOpenAIAvailability(cfg) THEN <<"openai">> ELSE <<>>
        p2 == Append(p1, "local")
    IN  Append(p2, "hybrid")

\* IntelligentAIEngine._initialize_providers: the keys of the providers dict in
\* insertion order.
InitializeProviders(cfg) ==
    LET p1 == IF CheckOpenAIAvailability(cfg) THEN <<"openai">> ELSE <<>>
        p2 == Append(p1, "local")
    IN  IF Len(p2) > 1 THEN Append(p2, "hybrid") ELSE p2

\* RuleBasedEngine.analyze
RuleBasedAnalyze(tx, customer) ==
    [factors |-> <<"rule_based_factor_1", "rule_based_factor_2">>,
     actions |-> <<"action_1", "action_2">>]

\* A pattern detector that does not report structuring.
DetectPatternsNoStructuring(tx, customer) ==
    [patterns |-> <<"unusual_behavior">>,
     factors |-> <<"pattern_based_factor_1">>]

\* PatternDetectionEngine.detect_patterns
DetectPatterns(tx, customer) ==
    [patterns |-> <<"structuring", "unusual_behavior">>,
     factors |-> <<"pattern_based_factor_1">>]

\* RiskCalculationEngine.calculate_risk
CalculateRisk(tx, customer) == 65

\* LocalIntelligenceProvider._fuse_results
FuseResults(rule_result, pattern_result, risk_score) ==
    [risk_level |-> "medium",
     risk_score |-> risk_score,
     risk_factors |-> Get(rule_result, "factors", <<>>) \o Get(pattern_result, "factors", <<>>),
     actions |-> Get(rule_result, "actions", <<>>),
     confidence |-> 7000]

\* LocalIntelligenceProvider.analyze
LocalAnalyze(tx, customer) ==
    LET rule_based_result == RuleBasedAnalyze(tx, customer)
        pattern_result == DetectPatterns(tx, customer)
        risk_score == CalculateRisk(tx, customer)
        final_result == FuseResults(rule_based_result, pattern_result, risk_score)
    IN  [risk_level |-> final_result.risk_level,
         risk_score |-> final_result.risk_score,
         risk_factors |-> final_result.risk_factors,
         recommended_actions |-> final_result.actions,
         detected_patterns |-> pattern_result.patterns,
         confidence |-> final_result.confidence,
         analysis_method |-> "local_intelligence"]

\* A hybrid provider that delegates to the local composite.
HybridAnalyzeDelegates(tx, customer) == LocalAnalyze(tx, customer)

\* HybridIntelligenceProvider.analyze: the body is `pass`, the call returns None.
HybridAnalyze(tx, customer) == None

\* risk.ctr_threshold and risk.suspicious_threshold of the default configuration.
CtrThreshold == 10000
SuspiciousThreshold == 8000

\* A cash transaction whose amount sits just below the reporting threshold.
NearThresholdCash(tx) ==
    /\ Get(tx, "type", "") = "cash_deposit"
    /\ Get(tx, "amount", 0) >= SuspiciousThreshold
    /\ Get(tx, "amount", 0) < CtrThreshold

\* What OpenAIProvider.analyze can return (providers/openai_provider.py is not in
\* the source tree): an assessment as the scoring-backend contract of the
\* specification describes it: severe for a PEP or sanctions match, otherwise
\* a level that agrees with the score; the structuring label for a cash amount
\* just below the reporting threshold.
OpenAIOutputs(tx, customer) ==
    LET levels == IF Get(customer, "pep_status", FALSE) \/ Get(customer, "sanctions_match", FALSE)
                  THEN {<<"severe", 95>>}
                  ELSE {<<"high", 80>>, <<"medium", 50>>}
    IN  {[risk_level |-> l[1], risk_score |-> l[2],
          risk_factors |-> <<"ai_factor_1">>,
          recommended_actions |-> <<"ai_action_1">>,
          detected_patterns |-> IF NearThresholdCash(tx) THEN <<"structuring">> ELSE <<>>,
          confidence |-> 9000,
          analysis_method |-> "openai"] : l \in levels}

\* The outcomes of `await provider.analyze(...)` for the provider registered
\* under `name`: a returned value, or Raised.  providers['openai'] is None when
\* the import in _create_openai_provider fails, and None.analyze raises.
AnalyzeOutcomes(cfg, name, tx, customer) ==
    CASE name = "openai" ->
            IF cfg.import_ok THEN OpenAIOutputs(tx, customer) \cup {Raised} ELSE {Raised}
      [] name = "local" -> {LocalAnalyze(tx, customer), Raised}
      [] name = "hybrid" -> {HybridAnalyze(tx, customer)}

Min(a, b) == IF a <= b THEN a ELSE b

\* The weights of _calculate_confidence, in tenths: 0.6, 0.3, 0.1.
WeightBase == 6
WeightPerformance == 3
WeightComplexity == 1

\* IntelligentAIEngine._calculate_confidence
CalculateConfidence(metrics, result) ==
    LET base_confidence == Get(result, "confidence", 5000)
        provider == Get(result, "ai_provider", "local")
        provider_performance == Get(metrics, provider, 8000)
        risk_factors == Len(Get(result, "risk_factors", <<>>))
        complexity_factor == Min(risk_factors * 1000, 10000)
        final_confidence ==
            (base_confidence * WeightBase + provider_performance * WeightPerformance
                + complexity_factor * WeightComplexity) \div 10
    IN  Min(final_confidence, 10000)

\* list.pop(0) raises IndexError on an empty list.
StoreRaises(cfg, memory) ==
    Len(memory) >= cfg.pattern_memory_size /\ memory = <<>>

\* A store that evicts the newest entry (pop() in place of pop(0)).
StoreAnalysisResultPopLast(cfg, memory, rid, tx, customer, result) ==
    LET kept == IF Len(memory) >= cfg.pattern_memory_size
                THEN SubSeq(memory, 1, Len(memory) - 1) ELSE memory
    IN  Append(kept, [rid |-> rid,
                      transaction |-> tx,
                      customer |-> customer,
                      result |-> result,
                      feedback |-> None])

\* IntelligentAIEngine._store_analysis_result, when it does not raise.
\* `rid` is the identity of the request that made the entry (not program data).
StoreAnalysisResult(cfg, memory, rid, tx, customer, result) ==
    LET kept == IF Len(memory) >= cfg.pattern_memory_size THEN Tail(memory) ELSE memory
    IN  Append(kept, [rid |-> rid,
                      transaction |-> tx,
                      customer |-> customer,
                      result |-> result,
                      feedback |-> None])

\* Index of the first entry whose transaction id matches, 0 if there is none.
FindEntry(memory, transaction_id) ==
    LET hits == {i \in 1 .. Len(memory) :
                    Get(memory[i].transaction, "transaction_id", None) = transaction_id}
    IN  IF hits = {} THEN 0 ELSE CHOOSE i \in hits : \A j \in hits : i <= j

\* A feedback loop without the `break`: every matching entry is updated.
LearnFromFeedbackAllMatches(memory, transaction_id, correct_assessment) ==
    [i \in 1 .. Len(memory) |->
        IF Get(memory[i].transaction, "transaction_id", None) = transaction_id
        THEN [memory[i] EXCEPT !.feedback = correct_assessment]
        ELSE memory[i]]

\* IntelligentAIEngine.learn_from_feedback on the learning memory.
LearnFromFeedbackMemory(memory, transaction_id, correct_assessment) ==
    LET i == FindEntry(memory, transaction_id)
    IN  IF i = 0 THEN memory
        ELSE [memory EXCEPT ![i].feedback = correct_assessment]

\* An _update_performance_metrics that records an accuracy for the local provider.
UpdatePerformanceMetricsRecords(metrics, correct_assessment) ==
    Put(metrics, "local", IF correct_assessment.risk_level = "high" THEN 10000 ELSE 0)

\* IntelligentAIEngine._update_performance_metrics: the body is `pass`.
UpdatePerformanceMetrics(metrics, correct_assessment) == metrics

\* A fallback loop that walks the providers from the last one back.
NextFallbackReversed(providers, primary, i) ==
    LET rest == {j \in i .. Len(providers) : providers[j] # primary}
    IN  IF rest = {} THEN Len(providers) + 1
        ELSE CHOOSE j \in rest : \A k \in rest : j >= k

\* A fallback loop without the `if provider_name != primary_provider` test.
NextFallbackNoSkip(providers, primary, i) ==
    IF i > Len(providers) THEN Len(providers) + 1 ELSE i

\* Next position at or after i in available_providers that the fallback loop
\* does not skip; Len + 1 when the loop is exhausted.
NextFallback(providers, primary, i) ==
    LET rest == {j \in i .. Len(providers) : providers[j] # primary}
    IN  IF rest = {} THEN Len(providers) + 1
        ELSE CHOOSE j \in rest : \A k \in rest : j <= k

\* type(system).__bases__[0]: every system class, the simulation and the
\* vendor adapters alike, derives from BankSystemInterface only.
FirstBase(system) == "BankSystemInterface"

\* isinstance(system, class) for a system of class `system`.
IsInstance(system, class) == class = system \/ class = FirstBase(system)

\* ------------------------------------------------------------ bank_system.py
\* SimulationSystem._initialize_sample_customers (the customers the inputs use).
Customers ==
    ("CUST001" :> [customer_id |-> "CUST001", risk_tier |-> "medium_risk",
                   pep_status |-> FALSE, sanctions_match |-> FALSE,
                   account_age_days |-> 420])
    @@ ("CUST003" :> [customer_id |-> "CUST003", risk_tier |-> "high_risk",
                      pep_status |-> TRUE, sanctions_match |-> FALSE,
                      account_age_days |-> 730])

\* <system>.get_customer_profile: the simulation looks the customer up, the
\* vendor adapters are `pass` and return None.
GetCustomerProfile(system, customer_id) ==
    IF system = "SimulationSystem"
    THEN Get(Customers, customer_id, [x \in {} |-> None])
    ELSE None

\* SimulationSystem._initialize_sample_transactions
SampleTransactions ==
    <<[transaction_id |-> "TX001", customer_id |-> "CUST001"],
      [transaction_id |-> "TX002", customer_id |-> "CUST001"]>>

\* <system>.get_transaction_history: the simulation filters its sample by
\* customer, the vendor adapters are `pass` and return None.
GetTransactionHistory(system, customer_id) ==
    IF system = "SimulationSystem"
    THEN SelectSeq(SampleTransactions, LAMBDA t : t.customer_id = customer_id)
    ELSE None

\* BankIntegrationManager.process_transaction (called with 'customer_id' present).
ProcessTransaction(cfg, tx) ==
    [customer_profile |-> GetCustomerProfile(cfg.core_system, tx.customer_id),
     recent_transactions |-> GetTransactionHistory(cfg.core_system, tx.customer_id),
     system_type |-> cfg.core_system,
     simulation_mode |-> IsInstance(cfg.core_system, "SimulationSystem")]

\* The outcomes of `await self.bank_integration.process_transaction(tx)`: the
\* context dict, or Raised: transaction_data['customer_id'] raises KeyError when
\* the key is missing, and an awaited data-source call may raise.
ProcessTransactionOutcomes(cfg, tx) ==
    IF "customer_id" \in DOMAIN tx
    THEN {ProcessTransaction(cfg, tx), Raised}
    ELSE {Raised}

\* The outcomes of `await <system>.submit_alert(alert_data)`: the simulation
\* returns True, the vendor adapters are `pass` and return None, and the
\* awaited call may raise.
SubmitAlertOutcomes(system) ==
    IF system = "SimulationSystem" THEN {"True", "raised"} ELSE {"None", "raised"}

\* ------------------------------------------------------------ aml_assistant.py
\* UltimateAMLAssistant._generate_comprehensive_result raises when the profile
\* is None (None has no .get) or the history is None (len(None)).
GenerateRaises(bank_context) ==
    \/ bank_context.customer_profile = None
    \/ Get(bank_context, "recent_transactions", <<>>) = None

GenerateComprehensiveResult(tx, bank_context, ai_analysis) ==
    [transaction_id |-> Get(tx, "transaction_id", None),
     risk_assessment |->
        [risk_level |-> Get(ai_analysis, "risk_level", "medium"),
         risk_score |-> Get(ai_analysis, "risk_score", 50),
         primary_factors |-> Get(ai_analysis, "risk_factors", <<>>),
         confidence |-> Get(ai_analysis, "confidence", 5000),
         ai_provider |-> Get(ai_analysis, "ai_provider", "local")],
     detected_patterns |-> Get(ai_analysis, "detected_patterns", <<>>),
     recommended_actions |-> Get(ai_analysis, "recommended_actions", <<>>),
     system_info |->
        [bank_system |-> Get(bank_context, "system_type", "simulation"),
         simulation_mode |-> Get(bank_context, "simulation_mode", TRUE),
         analysis_method |-> Get(ai_analysis, "analysis_method", "local_intelligence")],
     context |->
        [customer_risk_tier |-> Get(bank_context.customer_profile, "risk_tier", "unknown"),
         transaction_count |-> Len(Get(bank_context, "recent_transactions", <<>>)),
         customer_since_days |-> Get(bank_context.customer_profile, "account_age_days", 0)]]

\* A step-4 test that forgets RiskLevel.SEVERE.
IsHighRiskOnlyHigh(result) == result.risk_assessment.risk_level = "high"

\* The test of step 4 of UltimateAMLAssistant.analyze_transaction.
IsHighRisk(result) == result.risk_assessment.risk_level \in {"high", "severe"}

\* An alert counter that is read but not advanced.
NextAlertCounterStale(counter) == counter

\* self.alert_counter += 1
NextAlertCounter(counter) == counter + 1

\* The alert_data dict of UltimateAMLAssistant._submit_alert.
\* `rid` is the identity of the request (not program data).
AlertData(counter, rid, analysis_result) ==
    [alert_id |-> FormatAlertId(counter),
     counter |-> counter,
     rid |-> rid,
     transaction_id |-> analysis_result.transaction_id,
     risk_level |-> analysis_result.risk_assessment.risk_level,
     risk_score |-> analysis_result.risk_assessment.risk_score,
     detected_patterns |-> analysis_result.detected_patterns]

\* ------------------------------------------------------------------- state
IdleRequest ==
    [pc |-> "idle", rid |-> 0, tx |-> None, bank_context |-> None, idx |-> 0,
     calls |-> <<>>, primary_failed |-> FALSE, via |-> "none",
     ai_analysis |-> None, result |-> None, success |-> "unset",
     cancelled |-> FALSE]

InitWith(cfg) ==
    /\ config = cfg
    /\ available_providers = InitializeProviders(config)
    /\ learning_memory = <<>>
    /\ performance_metrics = [x \in {} |-> 0]
    /\ alert_counter = 0
    /\ alerts = <<>>
    /\ generated = <<>>
    /\ inserted = <<>>
    /\ submitted = 0
    /\ req = [r \in Tasks |-> IdleRequest]

\* No get_system_status call has returned, no _calculate_confidence call is observed.
NoCalls == status = None /\ conf_call = None

\* The assistant after construction, under any configuration.
Init == NoCalls /\ \E cfg \in Configs : InitWith(cfg)

\* The assistant after construction with the local provider as primary and
\* the simulated bank system (what get_ai_config and create_system fall back to).
InitFeedback ==
    /\ NoCalls
    /\ \E cfg \in Configs :
          /\ cfg.provider = "local"
          /\ cfg.core_system = "SimulationSystem"
          /\ InitWith(cfg)

Finished(r) == req[r].pc \in {"idle", "completed", "error", "cancelled"}

\* A caller starts aml_assistant.analyze_transaction(tx); the call runs on the
\* lowest-numbered free task and is the (submitted + 1)-th request.
Submit(r, tx) ==
    /\ submitted < NumReq
    /\ Finished(r)
    /\ \A q \in Tasks : q < r => ~Finished(q)
    /\ submitted' = submitted + 1
    /\ req' = [req EXCEPT ![r] = [IdleRequest EXCEPT !.pc = "received",
                                                     !.rid = submitted + 1,
                                                     !.tx = tx]]
    /\ UNCHANGED <<status, conf_call, config, available_providers, learning_memory, performance_metrics,
                   alert_counter, alerts, generated, inserted>>

\* A step 1 that catches the error and goes on with an empty context.
FetchContextDefault(r) ==
    /\ req[r].pc = "received"
    /\ \E out \in ProcessTransactionOutcomes(config, req[r].tx) :
          req' = [req EXCEPT ![r].pc = "engine",
                             ![r].bank_context =
                                 IF out = Raised
                                 THEN [customer_profile |-> [customer_id |-> "unknown"],
                                       recent_transactions |-> <<>>]
                                 ELSE out]
    /\ UNCHANGED <<status, conf_call, config, available_providers, learning_memory,
                   performance_metrics, alert_counter, alerts, generated, inserted,
                   submitted>>

\* Step 1 of UltimateAMLAssistant.analyze_transaction:
\* await self.bank_integration.process_transaction(transaction_data).
\* The call raises when 'customer_id' is missing (KeyError) or when a
\* data-source call raises; the facade has no handler.
FetchContext(r) ==
    /\ req[r].pc = "received"
    /\ \E out \in ProcessTransactionOutcomes(config, req[r].tx) :
          IF out = Raised
          THEN req' = [req EXCEPT ![r].pc = "error"]
          ELSE req' = [req EXCEPT ![r].pc = "engine", ![r].bank_context = out]
    /\ UNCHANGED <<status, conf_call, config, available_providers, learning_memory, performance_metrics,
                   alert_counter, alerts, generated, inserted, submitted>>

\* The body of one `try:` of IntelligentAIEngine.analyze_transaction after the
\* awaited analyze returned `out`: label the result, compute the confidence,
\* store it.  Raised when any statement of the body raises.
TryBody(cfg, metrics, memory, rid, tx, customer, name, out, fallback) ==
    IF out = Raised \/ out = None THEN Raised
    ELSE LET r1 == Put(out, "ai_provider", name)
             r2 == Put(r1, "confidence", CalculateConfidence(metrics, r1))
             r3 == IF fallback THEN Put(r2, "fallback_used", TRUE) ELSE r2
         IN  IF StoreRaises(cfg, memory) THEN Raised ELSE r3

\* IntelligentAIEngine.analyze_transaction, lines 55-71: the primary provider.
AnalyzePrimary(r) ==
    /\ req[r].pc = "engine"
    /\ LET primary == config.provider
           tx == req[r].tx
           customer == req[r].bank_context.customer_profile
       IN  IF \E i \in 1 .. Len(available_providers) : available_providers[i] = primary
           THEN \E out \in AnalyzeOutcomes(config, primary, tx, customer) :
                  LET res == TryBody(config, performance_metrics, learning_memory,
                                     req[r].rid, tx, customer, primary, out, FALSE)
                      call == <<primary, res # Raised, out # Raised /\ out # None>>
                  IN  IF res # Raised
                      THEN /\ learning_memory' =
                                StoreAnalysisResult(config, learning_memory, req[r].rid, tx, customer, res)
                           /\ inserted' = Append(inserted, req[r].rid)
                           /\ req' = [req EXCEPT ![r].pc = "assessed",
                                                 ![r].calls = Append(@, call),
                                                 ![r].via = "primary",
                                                 ![r].ai_analysis = res]
                      ELSE /\ req' = [req EXCEPT ![r].pc = "sweep",
                                                 ![r].idx = 1,
                                                 ![r].calls = Append(@, call),
                                                 ![r].primary_failed = TRUE]
                           /\ UNCHANGED <<learning_memory, inserted>>
           ELSE /\ req' = [req EXCEPT ![r].pc = "sweep", ![r].idx = 1]
                /\ UNCHANGED <<learning_memory, inserted>>
    /\ UNCHANGED <<status, conf_call, config, available_providers, performance_metrics,
                   alert_counter, alerts, generated, submitted>>

\* IntelligentAIEngine.analyze_transaction, lines 73-85: one iteration of the
\* fallback loop that calls a provider (iterations for the primary are skipped).
AnalyzeFallback(r) ==
    /\ req[r].pc = "sweep"
    /\ LET i == NextFallback(available_providers, config.provider, req[r].idx)
           tx == req[r].tx
           customer == req[r].bank_context.customer_profile
       IN  /\ i <= Len(available_providers)
           /\ \E out \in AnalyzeOutcomes(config, available_providers[i], tx, customer) :
                LET res == TryBody(config, performance_metrics, learning_memory,
                                   req[r].rid, tx, customer, available_providers[i], out, TRUE)
                    call == <<available_providers[i], res # Raised,
                              out # Raised /\ out # None>>
                IN  IF res # Raised
                    THEN /\ learning_memory' =
                              StoreAnalysisResult(config, learning_memory, req[r].rid, tx, customer, res)
                         /\ inserted' = Append(inserted, req[r].rid)
                         /\ req' = [req EXCEPT ![r].pc = "assessed",
                                               ![r].calls = Append(@, call),
                                               ![r].via = "fallback",
                                               ![r].ai_analysis = res]
                    ELSE /\ req' = [req EXCEPT ![r].idx = i + 1,
                                               ![r].calls = Append(@, call)]
                         /\ UNCHANGED <<learning_memory, inserted>>
    /\ UNCHANGED <<status, conf_call, config, available_providers, performance_metrics,
                   alert_counter, alerts, generated, submitted>>

\* An ultimate fallback that swallows the error and answers with an empty dict.
UltimateFallbackSwallow(r) ==
    /\ req[r].pc = "sweep"
    /\ NextFallback(available_providers, config.provider, req[r].idx)
            > Len(available_providers)
    /\ \E out \in AnalyzeOutcomes(config, "local", req[r].tx,
                                  req[r].bank_context.customer_profile) :
          req' = [req EXCEPT ![r].pc = "assessed",
                             ![r].calls = Append(@, <<"local", out # Raised, out # Raised>>),
                             ![r].via = "ultimate",
                             ![r].ai_analysis = IF out = Raised THEN [x \in {} |-> None]
                                                ELSE out]
    /\ UNCHANGED <<status, conf_call, config, available_providers, learning_memory, performance_metrics,
                   alert_counter, alerts, generated, inserted, submitted>>

\* IntelligentAIEngine.analyze_transaction, lines 87-89: the ultimate fallback,
\* return await self.available_providers['local'].analyze(...), outside any try.
UltimateFallback(r) ==
    /\ req[r].pc = "sweep"
    /\ NextFallback(available_providers, config.provider, req[r].idx)
            > Len(available_providers)
    /\ \E out \in AnalyzeOutcomes(config, "local", req[r].tx,
                                  req[r].bank_context.customer_profile) :
          IF out = Raised
          THEN req' = [req EXCEPT ![r].pc = "error",
                                  ![r].calls = Append(@, <<"local", FALSE, FALSE>>)]
          ELSE req' = [req EXCEPT ![r].pc = "assessed",
                                  ![r].calls = Append(@, <<"local", TRUE, TRUE>>),
                                  ![r].via = "ultimate",
                                  ![r].ai_analysis = out]
    /\ UNCHANGED <<status, conf_call, config, available_providers, learning_memory, performance_metrics,
                   alert_counter, alerts, generated, inserted, submitted>>

\* Steps 3 and 4 of UltimateAMLAssistant.analyze_transaction up to the await in
\* _submit_alert: build the result, test the level, count and build the alert.
AlertDecision(r) ==
    /\ req[r].pc = "assessed"
    /\ IF GenerateRaises(req[r].bank_context)
       THEN /\ req' = [req EXCEPT ![r].pc = "error"]
            /\ UNCHANGED <<alert_counter, generated>>
       ELSE LET result == GenerateComprehensiveResult(req[r].tx, req[r].bank_context,
                                                      req[r].ai_analysis)
            IN  IF IsHighRisk(result)
                THEN /\ alert_counter' = NextAlertCounter(alert_counter)
                     /\ generated' = Append(generated, AlertData(alert_counter', req[r].rid, result))
                     /\ req' = [req EXCEPT ![r].pc = "submitting", ![r].result = result]
                ELSE /\ req' = [req EXCEPT ![r].pc = "completed", ![r].result = result]
                     /\ UNCHANGED <<alert_counter, generated>>
    /\ UNCHANGED <<status, conf_call, config, available_providers, learning_memory, performance_metrics,
                   alerts, inserted, submitted>>

\* The alert_data dict the coroutine r is submitting.
PendingAlert(r) ==
    LET hits == {i \in 1 .. Len(generated) : generated[i].rid = req[r].rid}
    IN  generated[CHOOSE i \in hits : TRUE]

\* SimulationSystem.submit_alert: the dict appended to self.alerts.
StoredAlert(alert_data) ==
    Put(Put(alert_data, "submitted_at", "2024-01-15T12:00:00"), "alert_status", "open")

\* A _submit_alert without the try: a submission that raises ends the request.
SubmitAlertReturnFatal(r) ==
    /\ req[r].pc = "submitting"
    /\ \E success \in SubmitAlertOutcomes(config.core_system) :
          /\ alerts' = IF success = "True"
                       THEN Append(alerts, StoredAlert(PendingAlert(r)))
                       ELSE alerts
          /\ req' = IF success = "raised"
                    THEN [req EXCEPT ![r].pc = "error", ![r].result = None,
                                     ![r].success = success]
                    ELSE [req EXCEPT ![r].pc = "completed", ![r].success = success]
    /\ UNCHANGED <<status, conf_call, config, available_providers, learning_memory, performance_metrics,
                   alert_counter, generated, inserted, submitted>>

\* _submit_alert, lines 105-112, and lines 60-62 of analyze_transaction:
\* await <system>.submit_alert(alert_data) returns or raises, the outcome is
\* logged and the result is returned.  The simulation appends the alert.
SubmitAlertReturn(r) ==
    /\ req[r].pc = "submitting"
    /\ \E success \in SubmitAlertOutcomes(config.core_system) :
          /\ alerts' = IF success = "True"
                       THEN Append(alerts, StoredAlert(PendingAlert(r)))
                       ELSE alerts
          /\ req' = [req EXCEPT ![r].pc = "completed", ![r].success = success]
    /\ UNCHANGED <<status, conf_call, config, available_providers, learning_memory, performance_metrics,
                   alert_counter, generated, inserted, submitted>>

\* UltimateAMLAssistant.provide_feedback -> IntelligentAIEngine.learn_from_feedback
LearnFromFeedback(transaction_id, correct_assessment) ==
    /\ learning_memory' =
          LearnFromFeedbackMemory(learning_memory, transaction_id, correct_assessment)
    /\ performance_metrics' = UpdatePerformanceMetrics(performance_metrics, correct_assessment)
    /\ UNCHANGED <<status, conf_call, config, available_providers, alert_counter, alerts, generated,
                   inserted, submitted, req>>

\* A status dict that counts the alerts the bank system holds.
SystemStatusStoredAlerts(cfg, providers, counter, stored) ==
    [ai_engine |-> [primary_provider |-> cfg.provider,
                    available_providers |-> providers,
                    learning_enabled |-> TRUE],
     bank_integration |-> [system_type |-> cfg.core_system,
                           simulation_mode |->
                               IsInstance(cfg.core_system, FirstBase(cfg.core_system)),
                           health_status |-> TRUE],
     alerts_processed |-> Len(stored),
     config |-> cfg]

\* The dict UltimateAMLAssistant.get_system_status builds.  enable_learning is
\* the default of the configuration; isinstance(system, <first base class of
\* its class>) is True for every system; `stored` is the bank system's alert
\* list, which the method does not read.
SystemStatus(cfg, providers, counter, stored) ==
    [ai_engine |-> [primary_provider |-> cfg.provider,
                    available_providers |-> providers,
                    learning_enabled |-> TRUE],
     bank_integration |-> [system_type |-> cfg.core_system,
                           simulation_mode |->
                               IsInstance(cfg.core_system, FirstBase(cfg.core_system)),
                           health_status |-> TRUE],
     alerts_processed |-> counter,
     config |-> cfg]

\* UltimateAMLAssistant.get_system_status: a synchronous call that returns.
GetSystemStatus ==
    /\ status' = SystemStatus(config, available_providers, alert_counter, alerts)
    /\ UNCHANGED <<conf_call, config, available_providers, learning_memory,
                   performance_metrics, alert_counter, alerts, generated, inserted,
                   submitted, req>>

\* IntelligentAIEngine._calculate_confidence called on the observed argument.
CalculateConfidenceCall ==
    /\ conf_call # None
    /\ ~conf_call.called
    /\ conf_call' = [conf_call EXCEPT
                        !.called = TRUE,
                        !.returned = CalculateConfidence(performance_metrics, conf_call.result)]
    /\ UNCHANGED <<status, config, available_providers, learning_memory,
                   performance_metrics, alert_counter, alerts, generated, inserted,
                   submitted, req>>

\* The provider whose analyze the engine of request r awaits next, "" if none:
\* the primary at line 60, the next provider of the loop at line 77.
NextProvider(r) ==
    IF req[r].pc = "engine"
    THEN IF \E i \in 1 .. Len(available_providers) : available_providers[i] = config.provider
         THEN config.provider ELSE ""
    ELSE IF req[r].pc = "sweep"
    THEN LET i == NextFallback(available_providers, config.provider, req[r].idx)
         IN  IF i <= Len(available_providers) THEN available_providers[i] ELSE "local"
    ELSE ""

\* `await provider.analyze(...)` on the external-service provider never returns
\* (the remote call hangs).  The await is not wrapped in a timeout, so the
\* coroutine stays suspended in it.
AnalyzeHangs(r) ==
    /\ config.import_ok
    /\ NextProvider(r) = "openai"
    /\ req' = [req EXCEPT ![r].pc = "awaiting"]
    /\ UNCHANGED <<status, conf_call, config, available_providers, learning_memory,
                   performance_metrics, alert_counter, alerts, generated, inserted,
                   submitted>>

\* The coroutine of request r is at an await: of process_transaction (facade
\* line 43), of a provider's analyze (engine lines 60, 77, 89) or of
\* submit_alert (facade line 106).
AtAwait(r) ==
    \/ req[r].pc \in {"received", "submitting"}
    \/ NextProvider(r) # ""

\* The task of request r is cancelled while it waits at an await: the await
\* raises asyncio.CancelledError, which derives from BaseException, so no
\* `except Exception` of the engine or of _submit_alert catches it and the
\* coroutine ends there.
Cancel(r) ==
    /\ AtAwait(r)
    /\ req' = [req EXCEPT ![r].pc = "cancelled", ![r].cancelled = TRUE]
    /\ UNCHANGED <<status, conf_call, config, available_providers, learning_memory,
                   performance_metrics, alert_counter, alerts, generated, inserted,
                   submitted>>

\* The steps the event loop runs for the coroutine of request r.
Step(r) ==
    \/ FetchContext(r)
    \/ AnalyzePrimary(r)
    \/ AnalyzeFallback(r)
    \/ UltimateFallback(r)
    \/ AlertDecision(r)
    \/ SubmitAlertReturn(r)

Next ==
    \/ \E r \in Tasks, tx \in Transactions : Submit(r, tx)
    \/ \E r \in Tasks : FetchContext(r)
    \/ \E r \in Tasks : AnalyzePrimary(r)
    \/ \E r \in Tasks : AnalyzeFallback(r)
    \/ \E r \in Tasks : UltimateFallback(r)
    \/ \E r \in Tasks : AlertDecision(r)
    \/ \E r \in Tasks : SubmitAlertReturn(r)

NextFeedback ==
    \/ Next
    \/ \E t \in TxIds, a \in Assessments : LearnFromFeedback(t, a)

\* The analysis pipeline under every configuration.
Spec == Init /\ [][Next]_vars

\* The analysis pipeline interleaved with feedback calls.
SpecFeedback == InitFeedback /\ [][NextFeedback]_vars

\* The assistant after construction with a well-formed API key, the external
\* provider importable and the simulated bank system.
InitExternal ==
    /\ NoCalls
    /\ \E cfg \in Configs :
          /\ cfg.import_ok
          /\ cfg.core_system = "SimulationSystem"
          /\ InitWith(cfg)

\* The assistant after construction with a well-formed API key and the
\* external provider importable, on the simulated bank system or a vendor adapter.
InitStatus ==
    /\ NoCalls
    /\ \E cfg \in Configs : cfg.import_ok /\ InitWith(cfg)

NextStatus ==
    \/ Next
    \/ GetSystemStatus

\* The analysis pipeline interleaved with get_system_status calls.
SpecStatus == InitStatus /\ [][NextStatus]_vars

NextHang ==
    \/ Next
    \/ \E r \in Tasks : AnalyzeHangs(r)

\* The analysis pipeline with an external provider that can hang.  The event
\* loop resumes every coroutine whose awaited call has returned or raised.
SpecHang ==
    InitExternal /\ [][NextHang]_vars /\ \A r \in Tasks : WF_vars(Step(r))

NextCancel ==
    \/ Next
    \/ \E r \in Tasks : Cancel(r)

\* The analysis pipeline with callers that cancel their requests.
SpecCancel == InitExternal /\ [][NextCancel]_vars

\* Confidences a backend can report, in units of 1/10000.
BaseConfidences == {-10000, -2500, 0, 5000, 7000, 10000, 12500, 20000}

\* The risk_factors list of a backend result with n factors.
FactorList(n) == [i \in 1 .. n |-> "factor"]

\* The engine after construction, about to compute the confidence of a backend
\* result that already carries its ai_provider.
InitConfidence ==
    /\ status = None
    /\ \E cfg \in Configs :
          /\ cfg.provider = "local" /\ cfg.api_key = <<>>
          /\ cfg.pattern_memory_size = MaxCapacity
          /\ cfg.core_system = "SimulationSystem"
          /\ InitWith(cfg)
    /\ \E b \in BaseConfidences, n \in 0 .. MaxFactors :
          conf_call = [result |-> [confidence |-> b,
                                   risk_factors |-> FactorList(n),
                                   ai_provider |-> "local"],
                       called |-> FALSE,
                       returned |-> 0]

\* _calculate_confidence as a function of the backend's result.
SpecConfidence == InitConfidence /\ [][CalculateConfidenceCall]_vars

\* ===================================================================== claims
\* The providers the fallback loop visits, in registration order.
FallbackOrder == SelectSeq(available_providers, LAMBDA n : n # config.provider)

\* The calls request r made after the call to the primary.
SweepCalls(r) == SubSeq(req[r].calls, 2, Len(req[r].calls))

\* The providers whose call failed in request r.
FailedProviders(r) ==
    {req[r].calls[i][1] : i \in {j \in 1 .. Len(req[r].calls) : ~req[r].calls[j][2]}}

\* The alerts built for the request with identity rid.
AlertsOf(rid) == {i \in 1 .. Len(generated) : generated[i].rid = rid}

\* C1: after the primary's call failed, the calls of the sweep follow the
\* registration order without the primary, every call before the last one
\* failed, a request answered by the sweep is answered by the provider of its
\* last call, and two requests answered by the sweep with the same set of
\* failed providers are answered by the same provider.
C1_FallbackDeterministic ==
    /\ \A r \in Tasks :
          req[r].primary_failed =>
             LET sw == SweepCalls(r)
             IN  /\ \A i \in 1 .. Len(sw) :
                       /\ i <= Len(FallbackOrder) => sw[i][1] = FallbackOrder[i]
                       /\ i > Len(FallbackOrder) =>
                            i = Len(FallbackOrder) + 1 /\ sw[i][1] = "local"
                       /\ i < Len(sw) => ~sw[i][2]
                 /\ req[r].via = "fallback" =>
                       /\ Len(sw) \in 1 .. Len(FallbackOrder)
                       /\ sw[Len(sw)][2]
                       /\ req[r].ai_analysis.ai_provider = sw[Len(sw)][1]
    /\ \A r1, r2 \in Tasks :
          (/\ req[r1].primary_failed /\ req[r2].primary_failed
           /\ req[r1].via = "fallback" /\ req[r2].via = "fallback"
           /\ FailedProviders(r1) = FailedProviders(r2))
             => req[r1].ai_analysis.ai_provider = req[r2].ai_analysis.ai_provider

\* Two requests whose primary failed were both answered by the sweep after the
\* same providers failed, one of them after a failed sweep call.
C1_Witness ==
    \E r1, r2 \in Tasks :
        /\ r1 # r2
        /\ req[r1].primary_failed /\ req[r2].primary_failed
        /\ req[r1].via = "fallback" /\ req[r2].via = "fallback"
        /\ FailedProviders(r1) = FailedProviders(r2)
        /\ Len(req[r1].calls) >= 3

\* The engine of request r has returned an assessment.
Answered(r) == req[r].via # "none"

\* C2: a request whose primary call failed and which got an assessment got one
\* marked fallback_used = True with an ai_provider other than the primary.
C2_FallbackMarked ==
    \A r \in Tasks :
        (req[r].primary_failed /\ Answered(r)) =>
            /\ "fallback_used" \in DOMAIN req[r].ai_analysis
            /\ req[r].ai_analysis.fallback_used = TRUE
            /\ "ai_provider" \in DOMAIN req[r].ai_analysis
            /\ req[r].ai_analysis.ai_provider # config.provider

\* Request r has left the engine and every provider call it made failed.
AllCallsFailed(r) ==
    /\ req[r].pc \notin {"idle", "received", "engine", "sweep"}
    /\ req[r].calls # <<>>
    /\ \A i \in 1 .. Len(req[r].calls) : ~req[r].calls[i][2]

\* C3: when the primary, the sweep and the ultimate fallback all failed, the
\* request is in the error state with no assessment, no AnalysisResult, no
\* alert and no learning entry.
C3_AllBackendsFailedIsFatal ==
    \A r \in Tasks :
        AllCallsFailed(r) =>
            /\ req[r].pc = "error"
            /\ req[r].ai_analysis = None
            /\ req[r].result = None
            /\ AlertsOf(req[r].rid) = {}
            /\ \A i \in 1 .. Len(learning_memory) : learning_memory[i].rid # req[r].rid

\* A request failed on the primary, on a provider of the sweep and on the
\* ultimate fallback.
C3_Witness ==
    \E r \in Tasks :
        /\ AllCallsFailed(r)
        /\ Len(req[r].calls) >= 3
        /\ req[r].calls[Len(req[r].calls)] = <<"local", FALSE, FALSE>>

\* The request identities of the entries in the learning memory, in order.
MemoryRids == [i \in 1 .. Len(learning_memory) |-> learning_memory[i].rid]

\* The last n elements of a sequence.
LastN(seq, n) == SubSeq(seq, Len(seq) - n + 1, Len(seq))

\* C4: the learning memory never holds more than pattern_memory_size entries
\* and always holds the most recently inserted ones, in insertion order; after
\* more insertions than the capacity the first-inserted entry is gone.
C4_BoundedFifo ==
    /\ Len(learning_memory) <= config.pattern_memory_size
    /\ MemoryRids = LastN(inserted, Min(config.pattern_memory_size, Len(inserted)))
    /\ Len(inserted) > config.pattern_memory_size =>
          \A i \in 1 .. Len(learning_memory) : learning_memory[i].rid # inserted[1]

\* Capacity + 1 entries were inserted into a memory of capacity 2 or more by
\* requests that were in flight together.
C4_Witness ==
    /\ config.pattern_memory_size >= 2
    /\ Len(inserted) = config.pattern_memory_size + 1
    /\ \E i \in 1 .. Len(inserted) - 1 : inserted[i] > inserted[i + 1]

\* The entries of the learning memory recorded for transaction id t.
EntriesFor(t) ==
    {i \in 1 .. Len(learning_memory) : learning_memory[i].transaction.transaction_id = t}

\* C5: a feedback call for a transaction id that several entries carry sets
\* the feedback of the most recent of them and leaves the earlier ones alone.
C5_FeedbackMostRecent ==
    [][\A t \in TxIds, a \in Assessments :
          (LearnFromFeedback(t, a) /\ Cardinality(EntriesFor(t)) >= 2) =>
              LET last == CHOOSE i \in EntriesFor(t) : \A j \in EntriesFor(t) : j <= i
              IN  /\ learning_memory'[last].feedback = a
                  /\ \A i \in EntriesFor(t) \ {last} :
                        learning_memory'[i].feedback = learning_memory[i].feedback]_vars

\* C6: a feedback call changes the feedback of at most one entry and of none
\* when no entry carries the transaction id; it keeps the number and order of
\* the entries, their other fields, the performance metrics and with them the
\* confidence computed for every stored result; the weights sum to one.
C6_FeedbackFrame ==
    [][\A t \in TxIds, a \in Assessments :
          LearnFromFeedback(t, a) =>
              /\ Len(learning_memory') = Len(learning_memory)
              /\ \A i \in 1 .. Len(learning_memory) :
                    /\ learning_memory'[i].rid = learning_memory[i].rid
                    /\ learning_memory'[i].transaction = learning_memory[i].transaction
                    /\ learning_memory'[i].customer = learning_memory[i].customer
                    /\ learning_memory'[i].result = learning_memory[i].result
                    /\ CalculateConfidence(performance_metrics', learning_memory[i].result)
                          = CalculateConfidence(performance_metrics, learning_memory[i].result)
              /\ Cardinality({i \in 1 .. Len(learning_memory) :
                                learning_memory'[i].feedback # learning_memory[i].feedback}) <= 1
              /\ EntriesFor(t) = {} => learning_memory' = learning_memory
              /\ performance_metrics' = performance_metrics
              /\ WeightBase + WeightPerformance + WeightComplexity = 10]_vars

\* Of two entries with the same transaction id one has received feedback and
\* the other has not.
C6_Witness ==
    \E i, j \in 1 .. Len(learning_memory) :
        /\ i # j
        /\ learning_memory[i].transaction.transaction_id
              = learning_memory[j].transaction.transaction_id
        /\ learning_memory[i].feedback # None
        /\ learning_memory[j].feedback = None

\* C7: once an entry has feedback, no step replaces it.
C7_FeedbackAtMostOnce ==
    [][\A i \in 1 .. Len(learning_memory) :
          learning_memory[i].feedback # None =>
              \A j \in 1 .. Len(learning_memory') :
                  learning_memory'[j].rid = learning_memory[i].rid =>
                      learning_memory'[j].feedback = learning_memory[i].feedback]_vars

\* C8: the alerts built so far carry strictly increasing counter values, none
\* above the current counter, and pairwise different alert ids, also those
\* already handed to the bank system.
C8_AlertIdsIncrease ==
    /\ \A i, j \in 1 .. Len(generated) :
          i < j => /\ generated[i].counter < generated[j].counter
                   /\ generated[i].alert_id # generated[j].alert_id
    /\ \A i \in 1 .. Len(generated) :
          /\ generated[i].counter <= alert_counter
          /\ generated[i].alert_id = FormatAlertId(generated[i].counter)
    /\ \A i, j \in 1 .. Len(alerts) : i # j => alerts[i].alert_id # alerts[j].alert_id

\* Two requests are awaiting submit_alert at the same time, each with its alert.
C8_Witness ==
    \E r1, r2 \in Tasks :
        /\ r1 # r2
        /\ req[r1].pc = "submitting" /\ req[r2].pc = "submitting"
        /\ AlertsOf(req[r1].rid) # {} /\ AlertsOf(req[r2].rid) # {}

\* C9: a request with an AnalysisResult has exactly one alert when the level of
\* the result is high or severe and none otherwise, the alert carries the
\* request's transaction id, a request without an AnalysisResult has no alert,
\* no two alerts belong to one request and the bank system holds only alerts
\* that were built.
C9_AlertIffHighRisk ==
    /\ \A r \in Tasks :
          IF req[r].result # None
          THEN /\ Cardinality(AlertsOf(req[r].rid)) =
                     (IF req[r].result.risk_assessment.risk_level \in {"high", "severe"}
                      THEN 1 ELSE 0)
               /\ \A i \in AlertsOf(req[r].rid) :
                     /\ generated[i].transaction_id = req[r].tx.transaction_id
                     /\ generated[i].transaction_id = req[r].result.transaction_id
          ELSE AlertsOf(req[r].rid) = {}
    /\ \A i, j \in 1 .. Len(generated) : i # j => generated[i].rid # generated[j].rid
    /\ \A i \in 1 .. Len(alerts) :
          \E j \in 1 .. Len(generated) :
              /\ alerts[i].alert_id = generated[j].alert_id
              /\ alerts[i].transaction_id = generated[j].transaction_id
              /\ alerts[i].rid = generated[j].rid

\* One completed request has a severe result and its alert is with the bank
\* system, another completed request has a lower level and no alert.
C9_Witness ==
    \E r1, r2 \in Tasks :
        /\ req[r1].pc = "completed" /\ req[r2].pc = "completed"
        /\ req[r1].result.risk_assessment.risk_level = "severe"
        /\ \E i \in 1 .. Len(alerts) : alerts[i].rid = req[r1].rid
        /\ req[r2].result.risk_assessment.risk_level \notin {"high", "severe"}
        /\ AlertsOf(req[r2].rid) = {}

\* C10: under every configurable high_risk_score, an AnalysisResult whose score
\* reaches the threshold has level high or severe.
C10_ThresholdConsistent ==
    \A h \in HighRiskScores :
        \A r \in Tasks :
            req[r].result # None =>
                (req[r].result.risk_assessment.risk_score >= h =>
                    req[r].result.risk_assessment.risk_level \in {"high", "severe"})

\* The customer profile request r analysed.
ProfileOf(r) == req[r].bank_context.customer_profile

\* C11: an AnalysisResult for a customer with the PEP flag or a sanctions match
\* has level severe, and exactly one alert was built for the request, carrying
\* the request's transaction id.
C11_PepIsSevere ==
    \A r \in Tasks :
        (/\ req[r].result # None
         /\ \/ Get(ProfileOf(r), "pep_status", FALSE)
            \/ Get(ProfileOf(r), "sanctions_match", FALSE)) =>
            /\ req[r].result.risk_assessment.risk_level = "severe"
            /\ Cardinality(AlertsOf(req[r].rid)) = 1
            /\ \A i \in AlertsOf(req[r].rid) :
                  generated[i].transaction_id = req[r].tx.transaction_id

\* The labels of a pattern list.
Labels(patterns) == {patterns[i] : i \in 1 .. Len(patterns)}

\* C12: the AnalysisResult of a cash transaction whose amount is just below
\* the reporting threshold lists the structuring pattern.
C12_StructuringDetected ==
    \A r \in Tasks :
        (req[r].result # None /\ NearThresholdCash(req[r].tx)) =>
            "structuring" \in Labels(req[r].result.detected_patterns)

\* The 9500.00 cash deposit at a branch was answered by the local provider and
\* its result lists structuring.
C12_Witness ==
    \E r \in Tasks :
        /\ req[r].pc = "completed"
        /\ req[r].tx = ScenarioC
        /\ req[r].result.system_info.analysis_method = "local_intelligence"
        /\ "structuring" \in Labels(req[r].result.detected_patterns)

\* C13: a request whose alert submission returned a false value or raised is
\* completed, not in error, and holds the AnalysisResult built from its
\* assessment: same level, score, factors and provider.
C13_SubmitFailureNonFatal ==
    \A r \in Tasks :
        req[r].success \in {"None", "raised"} =>
            /\ req[r].pc = "completed"
            /\ req[r].result # None
            /\ req[r].result =
                  GenerateComprehensiveResult(req[r].tx, req[r].bank_context, req[r].ai_analysis)
            /\ req[r].result.risk_assessment.risk_level = req[r].ai_analysis.risk_level
            /\ req[r].result.risk_assessment.risk_score = req[r].ai_analysis.risk_score
            /\ req[r].result.risk_assessment.primary_factors = req[r].ai_analysis.risk_factors
            /\ req[r].result.risk_assessment.ai_provider = req[r].ai_analysis.ai_provider

\* The submission of a severe result's alert raised; the request is completed
\* and the bank system does not hold the alert.
C13_Witness ==
    \E r \in Tasks :
        /\ req[r].success = "raised"
        /\ req[r].pc = "completed"
        /\ req[r].result.risk_assessment.risk_level = "severe"
        /\ \A i \in 1 .. Len(alerts) : alerts[i].rid # req[r].rid

\* The context fetch of request r raised.
FetchFailed(r) == req[r].pc = "error" /\ req[r].bank_context = None

\* C14: a request whose context fetch raised has called no backend, has no
\* assessment, no AnalysisResult, no learning entry and no alert, built or
\* submitted; the alert counter counts only alerts that were built; and a
\* request reaches the engine only with the context the data source returned.
C14_FetchFailureFatal ==
    /\ \A r \in Tasks :
          FetchFailed(r) =>
              /\ req[r].calls = <<>>
              /\ req[r].ai_analysis = None
              /\ req[r].result = None
              /\ \A i \in 1 .. Len(inserted) : inserted[i] # req[r].rid
              /\ \A i \in 1 .. Len(learning_memory) : learning_memory[i].rid # req[r].rid
              /\ AlertsOf(req[r].rid) = {}
              /\ \A i \in 1 .. Len(alerts) : alerts[i].rid # req[r].rid
    /\ alert_counter = Len(generated)
    /\ \A r \in Tasks :
          (req[r].calls # <<>> \/ req[r].pc \in {"engine", "sweep", "assessed"}) =>
              /\ "customer_id" \in DOMAIN req[r].tx
              /\ req[r].bank_context = ProcessTransaction(config, req[r].tx)

\* A data-source call raised for a request that named its customer, while
\* other requests had recorded an entry and built an alert.
C14_Witness ==
    \E r \in Tasks :
        /\ FetchFailed(r)
        /\ "customer_id" \in DOMAIN req[r].tx
        /\ alert_counter > 0
        /\ learning_memory # <<>>

\* C15: the value _calculate_confidence returns lies in [0, 1], whatever base
\* confidence and number of risk factors the backend's result carries.
C15_ConfidenceInUnitInterval ==
    (conf_call # None /\ conf_call.called) =>
        /\ conf_call.returned >= 0
        /\ conf_call.returned <= 10000

\* C16: every assessment the engine returned carries ai_provider, and it names
\* the provider of the call that produced the assessment.
C16_ProviderIdentified ==
    \A r \in Tasks :
        Answered(r) =>
            /\ "ai_provider" \in DOMAIN req[r].ai_analysis
            /\ req[r].ai_analysis.ai_provider = req[r].calls[Len(req[r].calls)][1]

\* C17: a request suspended in a backend call that never returns eventually
\* reaches Completed or the error state.
C17_HungBackendTimesOut ==
    \A r \in Tasks :
        (req[r].pc = "awaiting") ~> (req[r].pc \in {"completed", "error"})

\* C18: a get_system_status call leaves the alert counter, the learning
\* memory, the performance metrics, the available providers, the
\* configuration, the bank system's alerts and the requests unchanged, and the
\* alerts_processed it reports is the alert counter.
C18_StatusReadOnly ==
    [][GetSystemStatus =>
          /\ alert_counter' = alert_counter
          /\ learning_memory' = learning_memory
          /\ performance_metrics' = performance_metrics
          /\ available_providers' = available_providers
          /\ config' = config
          /\ alerts' = alerts
          /\ req' = req
          /\ status'.alerts_processed = alert_counter']_vars

\* A status call returned after an alert was built whose submission is still
\* pending or has failed, with entries in the learning memory.
C18_Witness ==
    /\ status # None
    /\ status.alerts_processed > 0
    /\ status.alerts_processed = alert_counter
    /\ Len(alerts) < alert_counter
    /\ learning_memory # <<>>

\* C19: a request whose first call went to the configured primary and returned
\* an assessment made no other call, was answered by the primary's try block
\* with ai_provider set to the primary, the adjusted confidence and no
\* fallback_used key, and appended exactly one learning entry.
C19_PrimarySuccessReturns ==
    \A r \in Tasks :
        (/\ req[r].calls # <<>>
         /\ req[r].calls[1][1] = config.provider
         /\ req[r].calls[1][3]) =>
            /\ Len(req[r].calls) = 1
            /\ req[r].via = "primary"
            /\ req[r].ai_analysis.ai_provider = config.provider
            /\ "fallback_used" \notin DOMAIN req[r].ai_analysis
            /\ \E out \in AnalyzeOutcomes(config, config.provider, req[r].tx, ProfileOf(r))
                              \ {Raised, None} :
                  req[r].ai_analysis.confidence =
                      CalculateConfidence(performance_metrics,
                                          Put(out, "ai_provider", config.provider))
            /\ Cardinality({i \in 1 .. Len(inserted) : inserted[i] = req[r].rid}) = 1

\* The positions of the calls request r made to the provider `name`.
CallsTo(r, name) == {i \in 1 .. Len(req[r].calls) : req[r].calls[i][1] = name}

\* C20: within a request every provider but the local one is called at most
\* once, the local one at most twice and then the second time last, as the
\* ultimate fallback, and the request makes at most one call more than there
\* are available providers.
C20_SingleLinearSweep ==
    \A r \in Tasks :
        /\ \A name \in ProviderNames \ {"local"} : Cardinality(CallsTo(r, name)) <= 1
        /\ Cardinality(CallsTo(r, "local")) <= 2
        /\ Cardinality(CallsTo(r, "local")) = 2 =>
              /\ Len(req[r].calls) \in CallsTo(r, "local")
              /\ req[r].via \in {"none", "ultimate"}
        /\ Len(req[r].calls) <= Len(available_providers) + 1

\* A request called all three providers and then the local one again.
C20_Witness ==
    \E r \in Tasks :
        /\ Len(available_providers) = 3
        /\ Len(req[r].calls) = Len(available_providers) + 1
        /\ Cardinality(CallsTo(r, "local")) = 2

\* The names registered in available_providers.
Registered == {available_providers[i] : i \in 1 .. Len(available_providers)}

\* The configured API key is present and begins with "sk-".
KeyWellFormed ==
    /\ Len(config.api_key) >= 3
    /\ SubSeq(config.api_key, 1, 3) = <<"s", "k", "-">>

\* C23: after the engine starts, the local provider is always registered, the
\* external-service provider is registered only when the API key is present
\* and well-formed, the hybrid provider is registered exactly when the
\* external-service provider is, and every registered name is one of the three.
C23_ProviderSet ==
    /\ "local" \in Registered
    /\ "openai" \in Registered => KeyWellFormed
    /\ "hybrid" \in Registered <=> "openai" \in Registered
    /\ "hybrid" \in Registered <=> Cardinality(Registered \ {"hybrid"}) > 1
    /\ Registered \subseteq ProviderNames
    /\ Cardinality(Registered) = Len(available_providers)

\* An engine started with a malformed key has only the local provider and has
\* answered a request; the key is not empty.
C23_Witness ==
    /\ config.api_key # <<>>
    /\ ~KeyWellFormed
    /\ Registered = {"local"}
    /\ \E r \in Tasks : req[r].pc = "completed"

\* The backend identifier an assessment carries, "" when it carries none.
ProviderOf(assessment) == Get(assessment, "ai_provider", "")

Appended(rid) == Cardinality({i \in 1 .. Len(inserted) : inserted[i] = rid})

\* The request of task r returned an AnalysisResult / ended in an error.
Returned(r) == req[r].pc = "completed"
Errored(r) == req[r].pc = "error"

\* C24: recording is one-to-one with answers: a request whose engine call
\* returned an assessment (primary, sweep or ultimate fallback) has appended
\* exactly one entry to the Learning Store, holding that assessment, and a
\* request that ended in an error has appended none.
C24_RecordedIffAnswered ==
    \A r \in Tasks :
        /\ Answered(r) => Appended(req[r].rid) = 1
        /\ Answered(r) =>
              \A i \in 1 .. Len(learning_memory) :
                  learning_memory[i].rid = req[r].rid =>
                      learning_memory[i].result = req[r].ai_analysis
        /\ Errored(r) => Appended(req[r].rid) = 0

\* The configured primary provider is not registered.
PrimaryUnavailable == config.provider \notin Registered

\* The positions of the calls of request r that returned an assessment.
SuccessfulCalls(r) == {i \in 1 .. Len(req[r].calls) : req[r].calls[i][3]}

\* C27: when the configured primary is not registered, a request never calls
\* it, the calls it makes follow the registration order, and an answered
\* request is answered by the first provider whose call returned an
\* assessment, with that assessment marked fallback_used = TRUE.
C27_UnavailablePrimaryFallsBack ==
    PrimaryUnavailable =>
        \A r \in Tasks :
            /\ CallsTo(r, config.provider) = {}
            /\ ~req[r].primary_failed
            /\ \A i \in 1 .. Len(req[r].calls) :
                  i <= Len(available_providers) =>
                      req[r].calls[i][1] = available_providers[i]
            /\ Answered(r) =>
                  /\ SuccessfulCalls(r) # {}
                  /\ LET first == CHOOSE i \in SuccessfulCalls(r) :
                                     \A j \in SuccessfulCalls(r) : i <= j
                     IN  Get(req[r].ai_analysis, "analysis_method", "") =
                             IF req[r].calls[first][1] = "local"
                             THEN "local_intelligence" ELSE req[r].calls[first][1]
                  /\ Get(req[r].ai_analysis, "fallback_used", FALSE) = TRUE

\* The confidence _calculate_confidence gives a backend output of base
\* confidence `base` with n risk factors when the performance term is 0.8.
ConfidenceAtDefault(base, n) ==
    Min((base * 6 + 8000 * 3 + Min(n * 1000, 10000)) \div 10, 10000)

C26_SimulationFlagAgrees ==
    status # None =>
        /\ status.bank_integration.simulation_mode
              <=> status.bank_integration.system_type = "SimulationSystem"
        /\ \A r \in Tasks :
              /\ req[r].bank_context # None =>
                    req[r].bank_context.simulation_mode
                        = status.bank_integration.simulation_mode
              /\ req[r].result # None =>
                    req[r].result.system_info.simulation_mode
                        = status.bank_integration.simulation_mode

\* The workflow state of a request: Received, ContextFetched (the engine is
\* running), Assessed, AlertDecision (an alert is being submitted), Completed,
\* error.
WorkflowState(q) ==
    CASE q.pc = "received" -> "Received"
      [] q.pc \in {"engine", "sweep"} -> "ContextFetched"
      [] q.pc = "assessed" -> "Assessed"
      [] q.pc = "submitting" -> "AlertDecision"
      [] q.pc = "completed" -> "Completed"
      [] q.pc = "error" -> "Error"
      [] OTHER -> "None"

\* The moves of the workflow: forward by one state (the alert decision is
\* passed in one step when no alert is due), or to the error state.
WorkflowMoves ==
    {<<"Received", "ContextFetched">>, <<"ContextFetched", "Assessed">>,
     <<"Assessed", "AlertDecision">>, <<"Assessed", "Completed">>,
     <<"AlertDecision", "Completed">>,
     <<"Received", "Error">>, <<"ContextFetched", "Error">>,
     <<"Assessed", "Error">>, <<"AlertDecision", "Error">>}

\* What holds of a request in each workflow state.
WorkflowStateInv(r) ==
    LET q == req[r]
        w == WorkflowState(q)
    IN  /\ w \in {"ContextFetched", "Assessed", "AlertDecision", "Completed"} =>
              q.bank_context # None
        /\ q.calls # <<>> => q.bank_context # None
        /\ w \in {"Assessed", "AlertDecision", "Completed"} =>
              /\ Answered(r)
              /\ Appended(q.rid) = 1
        /\ w \in {"Received", "ContextFetched"} => ~Answered(r) /\ Appended(q.rid) = 0
        /\ w \in {"AlertDecision", "Completed"} <=> q.result # None
        /\ w = "AlertDecision" => AlertsOf(q.rid) # {} /\ q.success = "unset"
        /\ w = "Completed" => (AlertsOf(q.rid) # {} <=> q.success # "unset")
        /\ w \notin {"None", "Completed", "Error"} => ENABLED Step(r)

\* What holds of a step of the request run by task r.
WorkflowStep(r) ==
    LET q == req[r]
        n == req'[r]
    IN  /\ (n.rid = q.rid /\ WorkflowState(n) # WorkflowState(q)) =>
              <<WorkflowState(q), WorkflowState(n)>> \in WorkflowMoves
        /\ n.rid # q.rid =>
              /\ WorkflowState(q) \in {"None", "Completed", "Error"}
              /\ WorkflowState(n) = "Received"
        /\ (n.rid = q.rid /\ n.calls # q.calls) => WorkflowState(q) = "ContextFetched"
        /\ (n.rid = q.rid /\ Appended(q.rid)' # Appended(q.rid)) =>
              WorkflowState(q) = "ContextFetched" /\ WorkflowState(n) = "Assessed"
        /\ (n.rid = q.rid /\ AlertsOf(q.rid)' # AlertsOf(q.rid)) =>
              WorkflowState(q) = "Assessed" /\ WorkflowState(n) = "AlertDecision"
        /\ (n.rid = q.rid /\ n.success # q.success) =>
              WorkflowState(q) = "AlertDecision" /\ WorkflowState(n) = "Completed"

\* C21: every request passes Received, ContextFetched, Assessed, AlertDecision
\* and Completed in that order: context is fetched before any backend call,
\* the Learning Store entry is recorded before the alert decision, an alert is
\* submitted before the result is returned, no state is skipped or entered
\* twice, and a request stops only in Completed (with a result) or in the
\* error state (without one).
C21_WorkflowOrder ==
    /\ [](\A r \in Tasks : WorkflowStateInv(r))
    /\ [][\A r \in Tasks : WorkflowStep(r)]_vars

\* The fields every Learning Store entry has.
EntryFields == {"rid", "transaction", "customer", "result", "feedback"}

====
